---- MODULE Spec2Model ----
(***************************************************************************)
(* Model of apt-sources-lists: the entry grammar (source_entry.rs), the    *)
(* line classifier (source_line.rs), one sources file (SourcesList) and    *)
(* the collection of files with its dirty set (SourcesLists), including    *)
(* the backup / rewrite / restore protocol of dist_upgrade.                *)
(*                                                                         *)
(* Text is a sequence of one-character strings.  Option<T> is a sequence   *)
(* of length 0 (None) or 1 (Some).  Result<T,E> is a record with an `ok`   *)
(* flag.  Positions are 0-based as in the source; TLA+ sequences are       *)
(* 1-based, so position p is element p + 1.                                *)
(***************************************************************************)
EXTENDS Integers, Sequences, FiniteSets, TLC

VARIABLES files, modified, disk, du, last, nops, input, output

vars == <<files, modified, disk, du, last, nops, input, output>>

collvars == <<files, modified, disk, du, last, nops>>

parsevars == <<input, output>>

-----------------------------------------------------------------------------
(* Option and Result *)

None == <<>>

Some(x) == <<x>>

IsSome(o) == Len(o) = 1

Unwrap(o) == o[1]

Ok(v) == [ok |-> TRUE, val |-> v]

(* F(v), with v evaluated once: a `let` binding of the source *)
Let(v, F(_)) == CHOOSE r \in {F(x) : x \in {v}} : TRUE

Err(e) == [ok |-> FALSE, err |-> e]

MissingField(f) == [type |-> "MissingField", field |-> f]

InvalidValue(f, v) == [type |-> "InvalidValue", field |-> f, value |-> v]

-----------------------------------------------------------------------------
(* str primitives of the standard library, as the code uses them *)

IsWhitespace(c) == c \in {" ", "\t", "\r", "\n"}

Slice(s, a, b) == IF a > b THEN <<>> ELSE SubSeq(s, a, b)

RECURSIVE trim_start(_)
trim_start(s) ==
  IF s # <<>> /\ IsWhitespace(s[1]) THEN trim_start(Tail(s)) ELSE s

RECURSIVE trim_end(_)
trim_end(s) ==
  IF s # <<>> /\ IsWhitespace(s[Len(s)])
    THEN trim_end(Slice(s, 1, Len(s) - 1))
    ELSE s

trim(s) == trim_end(trim_start(s))

starts_with(s, p) == Len(p) <= Len(s) /\ Slice(s, 1, Len(p)) = p

(* 0-based position of the first occurrence of character c, as an Option *)
find(s, c) ==
  IF \E i \in 1..Len(s) : s[i] = c
    THEN Some((CHOOSE i \in 1..Len(s) : s[i] = c /\ \A j \in 1..(i - 1) : s[j] # c) - 1)
    ELSE None

(* str::replace: every non-overlapping match, left to right; an empty      *)
(* pattern matches at every character boundary.                            *)
RECURSIVE replace_nonempty(_, _, _)
replace_nonempty(s, from, to) ==
  IF s = <<>> THEN <<>>
  ELSE IF starts_with(s, from)
    THEN to \o replace_nonempty(Slice(s, Len(from) + 1, Len(s)), from, to)
    ELSE <<s[1]>> \o replace_nonempty(Tail(s), from, to)

RECURSIVE replace_empty(_, _)
replace_empty(s, to) ==
  IF s = <<>> THEN to ELSE to \o <<s[1]>> \o replace_empty(Tail(s), to)

replace(s, from, to) ==
  IF from = <<>> THEN replace_empty(s, to) ELSE replace_nonempty(s, from, to)

(* str::split_whitespace: the maximal runs of non-whitespace characters *)
RECURSIVE split_ws(_, _, _)
split_ws(s, cur, acc) ==
  IF s = <<>> THEN (IF cur = <<>> THEN acc ELSE Append(acc, cur))
  ELSE IF IsWhitespace(s[1])
    THEN split_ws(Tail(s), <<>>, IF cur = <<>> THEN acc ELSE Append(acc, cur))
    ELSE split_ws(Tail(s), Append(cur, s[1]), acc)

split_whitespace(s) == split_ws(s, <<>>, <<>>)

(* [T]::join with a separator *)
RECURSIVE join(_, _)
join(parts, sep) ==
  IF parts = <<>> THEN <<>>
  ELSE IF Len(parts) = 1 THEN parts[1]
  ELSE parts[1] \o sep \o join(Tail(parts), sep)

(* str::lines: split at "\n", a final empty piece is dropped, and a        *)
(* trailing "\r" of a line is removed.                                     *)
strip_cr(l) ==
  IF l # <<>> /\ l[Len(l)] = "\r" THEN Slice(l, 1, Len(l) - 1) ELSE l

RECURSIVE str_lines(_, _, _)
str_lines(s, cur, acc) ==
  IF s = <<>> THEN (IF cur = <<>> THEN acc ELSE Append(acc, strip_cr(cur)))
  ELSE IF s[1] = "\n"
    THEN str_lines(Tail(s), <<>>, Append(acc, strip_cr(cur)))
    ELSE str_lines(Tail(s), Append(cur, s[1]), acc)

lines(s) == str_lines(s, <<>>, <<>>)

-----------------------------------------------------------------------------
(* source_entry.rs *)

sDeb == <<"d", "e", "b">>

sDebSrc == <<"d", "e", "b", "-", "s", "r", "c">>

sHttp == <<"h", "t", "t", "p">>

SourceEntry(enabled, source, options, url, suite, components) ==
  [enabled |-> enabled, source |-> source, options |-> options,
   url |-> url, suite |-> suite, components |-> components]

(* Display for SourceEntry without the option list *)
SourceEntry_fmt_no_options(e) ==
  (IF ~e.enabled THEN <<"#", " ">> ELSE <<>>)
    \o (IF e.source THEN sDebSrc \o <<" ">> ELSE sDeb \o <<" ">>)
    \o e.url \o <<" ">> \o e.suite \o <<" ">> \o join(e.components, <<" ">>)

(* impl Display for SourceEntry *)
SourceEntry_fmt(e) ==
  (IF ~e.enabled THEN <<"#", " ">> ELSE <<>>)
    \o (IF e.source THEN sDebSrc \o <<" ">> ELSE sDeb \o <<" ">>)
    \o (IF IsSome(e.options) THEN <<"[">> \o Unwrap(e.options) \o <<"]", " ">> ELSE <<>>)
    \o e.url \o <<" ">> \o e.suite \o <<" ">> \o join(e.components, <<" ">>)

RECURSIVE option_loop_url(_, _, _)
RECURSIVE option_loop(_, _, _)
(* the loop reporting the url when the tokens run out *)
option_loop_url(fields, k, acc) ==
  IF k > Len(fields) THEN Err(MissingField("url"))
  ELSE LET next == fields[k]
           pos == find(next, "]")
       IN IF IsSome(pos)
            THEN Ok([options |-> Some(acc \o Slice(next, 1, Unwrap(pos))),
                     leftover |-> IF Unwrap(pos) # Len(next) - 1
                                    THEN Some(Slice(next, Unwrap(pos) + 2, Len(next)))
                                    ELSE None,
                     k |-> k + 1])
            ELSE option_loop_url(fields, k + 1, acc \o next)

(* The loop that gathers an option list spread over several tokens: k is   *)
(* the 1-based index of the next token of fields, acc the text so far.     *)
option_loop(fields, k, acc) ==
  IF k > Len(fields) THEN Err(MissingField("option"))
  ELSE LET next == fields[k]
           pos == find(next, "]")
       IN IF IsSome(pos)
            THEN Ok([options |-> Some(acc \o Slice(next, 1, Unwrap(pos))),
                     leftover |-> IF Unwrap(pos) # Len(next) - 1
                                    THEN Some(Slice(next, Unwrap(pos) + 2, Len(next)))
                                    ELSE None,
                     k |-> k + 1])
            ELSE option_loop(fields, k + 1, acc \o next)

(* the branch without the text that follows `]` in its token *)
parse_options_no_leftover(fields) ==
  LET field == Tail(fields[2])
      pos == find(field, "]")
  IN IF IsSome(pos)
       THEN Ok([options |-> Some(Slice(field, 1, Unwrap(pos))), leftover |-> None, k |-> 3])
       ELSE option_loop(fields, 3, field)

(* The branch taken when the second token starts with '[' *)
parse_options(fields) ==
  LET field == Tail(fields[2])
      pos == find(field, "]")
  IN IF IsSome(pos)
       THEN Ok([options |-> Some(Slice(field, 1, Unwrap(pos))),
                leftover |-> IF Unwrap(pos) = Len(field) - 1
                               THEN None
                               ELSE Some(Slice(field, Unwrap(pos) + 2, Len(field))),
                k |-> 3])
       ELSE option_loop(fields, 3, field)

(* The tail of the parser, once options and url are known; k is the index  *)
(* of the next unread token.                                               *)
parse_suite(fields, source, options, url, k) ==
  IF k > Len(fields) THEN Err(MissingField("suite"))
  ELSE Ok(SourceEntry(TRUE, source,
                      IF IsSome(options) /\ Unwrap(options) = <<>> THEN None ELSE options,
                      url, fields[k], Slice(fields, k + 1, Len(fields))))

(* impl FromStr for SourceEntry *)
SourceEntry_from_str(line) ==
  LET fields == split_whitespace(line)
  IN IF Len(fields) = 0 THEN Err(MissingField("source"))
     ELSE IF fields[1] # sDeb /\ fields[1] # sDebSrc
       THEN Err(InvalidValue("source", fields[1]))
     ELSE IF Len(fields) < 2 THEN Err(MissingField("url"))
     ELSE LET source == (fields[1] = sDebSrc)
          IN IF starts_with(fields[2], <<"[">>)
               THEN LET o == parse_options(fields)
                    IN IF ~o.ok THEN o
                       ELSE IF IsSome(o.val.leftover)
                         THEN parse_suite(fields, source, o.val.options,
                                          Unwrap(o.val.leftover), o.val.k)
                       ELSE IF o.val.k > Len(fields) THEN Err(MissingField("url"))
                       ELSE parse_suite(fields, source, o.val.options,
                                        fields[o.val.k], o.val.k + 1)
               ELSE parse_suite(fields, source, None, fields[2], 3)

-----------------------------------------------------------------------------
(* source_line.rs *)

Comment(text) == [kind |-> "Comment", text |-> text]

Empty == [kind |-> "Empty"]

Entry(e) == [kind |-> "Entry", entry |-> e]

IsEntry(l) == l.kind = "Entry"

(* impl Display for SourceLine *)
SourceLine_fmt(l) ==
  CASE l.kind = "Comment" -> l.text
    [] l.kind = "Empty" -> <<>>
    [] l.kind = "Entry" -> SourceEntry_fmt(l.entry)

(* The text handed to the entry parser for a '#' line.  The code computes  *)
(* `inner` (the text after the marker) for the emptiness test, and parses  *)
(* `line`, the trimmed text that still starts with the marker.             *)
comment_parse_inner(line, inner) == inner

comment_parse_text(line, inner) == line

(* impl FromStr for SourceLine *)
SourceLine_from_str(raw) ==
  LET line == trim(raw)
  IN IF starts_with(line, <<"#">>)
       THEN LET inner == trim(Tail(line))
                entry == IF inner # <<>>
                           THEN SourceEntry_from_str(comment_parse_text(line, inner))
                           ELSE Err(MissingField("source"))
            IN IF entry.ok
                 THEN Ok(Entry([entry.val EXCEPT !.enabled = FALSE]))
                 ELSE Ok(Comment(line))
     ELSE IF line = <<>> THEN Ok(Empty)
     ELSE LET entry == SourceEntry_from_str(line)
          IN IF entry.ok THEN Ok(Entry(entry.val)) ELSE entry

-----------------------------------------------------------------------------
(* The file system: every path holds None (no such file) or Some(text) *)

pMain == "/etc/apt/sources.list"

pPop == "/etc/apt/sources.list.d/pop.list"

pNew == "/etc/apt/sources.list.d/new.list"

pRoot == "/"

Paths == {pMain, pPop, pNew, pRoot}

(* Path::file_name: None for a path with no final component *)
file_name(path) == IF path = pRoot THEN None ELSE Some(path)

(* newfile: the sibling path whose file name is the original's plus ".save" *)
backup_path(path) ==
  IF IsSome(file_name(path)) THEN Some(path \o ".save") ELSE None

AllPaths == Paths \cup {Unwrap(backup_path(p)) : p \in Paths \ {pRoot}}

(* fs::read_to_string *)
fs_read_to_string(d, path) ==
  IF IsSome(d[path]) THEN Ok(Unwrap(d[path])) ELSE Err("NotFound")

(* fs::copy(from, to): the disk afterwards; fails when `from` is missing *)
fs_copy(d, from, to) ==
  IF IsSome(d[from]) THEN Ok([d EXCEPT ![to] = d[from]]) ELSE Err("NotFound")

(* the open without truncate(true): the file keeps what it holds *)
open_no_truncate(d, path) ==
  IF IsSome(d[path]) THEN Ok(d) ELSE Err("NotFound")

(* OpenOptions::new().truncate(true).write(true).open(path): no `create`,  *)
(* so a missing file is an error; an existing one is emptied.              *)
open_truncate(d, path) ==
  IF IsSome(d[path]) THEN Ok([d EXCEPT ![path] = Some(<<>>)]) ELSE Err("NotFound")

(* appending text through the open file handle *)
fs_append(d, path, text) == [d EXCEPT ![path] = Some(Unwrap(@) \o text)]

-----------------------------------------------------------------------------
(* sources_list.rs: SourcesList, one file *)

SourcesList(path, ls) == [path |-> path, lines |-> ls]

vec_contains(v, x) == \E k \in 1..Len(v) : v[k] = x

(* Vec::remove at a 0-based position *)
vec_remove(v, pos) == Slice(v, 1, pos) \o Slice(v, pos + 2, Len(v))

RECURSIVE from_str_loop_pushed(_, _, _)
RECURSIVE from_str_loop(_, _, _)
(* the loop reporting the number of lines pushed so far *)
from_str_loop_pushed(ls, no, acc) ==
  IF no >= Len(ls) THEN Ok(SourcesList("", acc))
  ELSE Let(SourceLine_from_str(ls[no + 1]), LAMBDA entry :
         IF ~entry.ok
           THEN Err([type |-> "BadLine", line |-> Len(acc), why |-> entry.err])
           ELSE Let(IF ~vec_contains(acc, entry.val)
                      THEN Append(acc, entry.val)
                      ELSE acc,
                    LAMBDA pushed : from_str_loop_pushed(ls, no + 1, pushed)))

(* impl FromStr for SourcesList: no is the 0-based number of the line *)
from_str_loop(ls, no, acc) ==
  IF no >= Len(ls) THEN Ok(SourcesList("", acc))
  ELSE Let(SourceLine_from_str(ls[no + 1]), LAMBDA entry :
         IF ~entry.ok
           THEN Err([type |-> "BadLine", line |-> no, why |-> entry.err])
           ELSE Let(IF ~vec_contains(acc, entry.val)
                      THEN Append(acc, entry.val)
                      ELSE acc,
                    LAMBDA pushed : from_str_loop(ls, no + 1, pushed)))

SourcesList_from_str(text) ==
  Let(lines(text), LAMBDA ls : from_str_loop(ls, 0, <<>>))

(* SourcesList::new *)
SourcesList_new(d, path) ==
  LET data == fs_read_to_string(d, path)
  IN IF ~data.ok
       THEN Err([type |-> "SourcesListOpen", path |-> path, why |-> data.err])
       ELSE Let(SourcesList_from_str(data.val), LAMBDA sources_file :
              IF ~sources_file.ok
                THEN Err([type |-> "SourcesList", path |-> path, why |-> sources_file.err])
                ELSE Ok([sources_file.val EXCEPT !.path = path]))

(* SourcesList::contains_entry: 0-based position of the first Entry line   *)
(* whose url equals `entry`.                                               *)
contains_entry(list, entry) ==
  LET hit(k) == IsEntry(list.lines[k]) /\ list.lines[k].entry.url = entry
  IN IF \E k \in 1..Len(list.lines) : hit(k)
       THEN Some((CHOOSE k \in 1..Len(list.lines) :
                    hit(k) /\ \A j \in 1..(k - 1) : ~hit(j)) - 1)
       ELSE None

(* impl Display for SourcesList: every line followed by a newline *)
RECURSIVE SourcesList_fmt_lines(_)
SourcesList_fmt_lines(ls) ==
  IF ls = <<>> THEN <<>>
  ELSE SourceLine_fmt(ls[1]) \o <<"\n">> \o SourcesList_fmt_lines(Tail(ls))

SourcesList_fmt(list) == SourcesList_fmt_lines(list.lines)

(* SourcesList::write_sync writes writeln!("{}", self) *)
SourcesList_write_text(list) == SourcesList_fmt(list) \o <<"\n">>

-----------------------------------------------------------------------------
(* sources_list.rs: SourcesLists, the collection *)

as_u16(id) == id % 65536

add_modified_push(m, list) == Append(m, list)

add_modified(m, list) ==
  IF \E k \in 1..Len(m) : m[k] = list THEN m ELSE Append(m, list)

(* SourcesLists::new_from_paths *)
RECURSIVE collect_files(_, _, _)
collect_files(d, paths, acc) ==
  IF paths = <<>> THEN Ok(acc)
  ELSE Let(SourcesList_new(d, paths[1]), LAMBDA f :
         IF ~f.ok THEN f
         ELSE Let(Append(acc, f.val), LAMBDA pushed :
                collect_files(d, Tail(paths), pushed)))

new_from_paths(d, paths) ==
  LET fs == collect_files(d, paths, <<>>)
  IN IF ~fs.ok THEN fs ELSE Ok([files |-> fs.val, modified |-> <<>>])

(* 0-based id of the first file marked TRUE in hit, as an Option *)
first_file(hit) ==
  IF \E k \in 1..Len(hit) : hit[k]
    THEN Some((CHOOSE k \in 1..Len(hit) : hit[k] /\ \A j \in 1..(k - 1) : ~hit[j]) - 1)
    ELSE None

(* get_entry_mut without the comparison of the url *)
get_entry_mut_any(list, entry) ==
  LET hit(k) == IsEntry(list.lines[k])
  IN IF \E k \in 1..Len(list.lines) : hit(k)
       THEN Some((CHOOSE k \in 1..Len(list.lines) :
                    hit(k) /\ \A j \in 1..(k - 1) : ~hit(j)) - 1)
       ELSE None

(* SourcesList::get_entry_mut: the mutable reference it returns is the     *)
(* 0-based position of the line that holds the entry.                      *)
get_entry_mut(list, entry) ==
  LET hit(k) == IsEntry(list.lines[k]) /\ entry = list.lines[k].entry.url
  IN IF \E k \in 1..Len(list.lines) : hit(k)
       THEN Some((CHOOSE k \in 1..Len(list.lines) :
                    hit(k) /\ \A j \in 1..(k - 1) : ~hit(j)) - 1)
       ELSE None

(* repo_modify without the call of add_modified *)
repo_modify_unmarked(fs, m, repo, enabled) ==
  LET pos == first_file([k \in 1..Len(fs) |-> IsSome(get_entry_mut(fs[k], repo))])
  IN IF IsSome(pos)
       THEN LET id == Unwrap(pos)
                line == Unwrap(get_entry_mut(fs[id + 1], repo))
            IN [files |-> [fs EXCEPT ![id + 1].lines[line + 1].entry.enabled = enabled],
                modified |-> m,
                ret |-> TRUE]
       ELSE [files |-> fs, modified |-> m, ret |-> FALSE]

(* SourcesLists::repo_modify *)
repo_modify(fs, m, repo, enabled) ==
  LET pos == first_file([k \in 1..Len(fs) |-> IsSome(get_entry_mut(fs[k], repo))])
  IN IF IsSome(pos)
       THEN LET id == Unwrap(pos)
                line == Unwrap(get_entry_mut(fs[id + 1], repo))
            IN [files |-> [fs EXCEPT ![id + 1].lines[line + 1].entry.enabled = enabled],
                modified |-> add_modified(m, as_u16(id)),
                ret |-> TRUE]
       ELSE [files |-> fs, modified |-> m, ret |-> FALSE]

(* the filter_map of entries() keeping the enabled entries only *)
RECURSIVE entries_lines_enabled(_)
RECURSIVE entries_lines(_)
entries_lines_enabled(ls) ==
  IF ls = <<>> THEN <<>>
  ELSE (IF IsEntry(Head(ls)) /\ Head(ls).entry.enabled THEN <<Head(ls).entry>> ELSE <<>>)
         \o entries_lines_enabled(Tail(ls))

(* entries(), the filter_map over the lines: the entry of an Entry line *)
entries_lines(ls) ==
  IF ls = <<>> THEN <<>>
  ELSE (IF IsEntry(Head(ls)) THEN <<Head(ls).entry>> ELSE <<>>) \o entries_lines(Tail(ls))

(* SourcesLists::entries: flat_map over the files in order *)
RECURSIVE entries(_)
entries(fs) ==
  IF fs = <<>> THEN <<>> ELSE entries_lines(Head(fs).lines) \o entries(Tail(fs))

(* insert_entry, the match on contains_entry inside the file that has the path *)
insert_into_append(list, entry) ==
  [list EXCEPT !.lines = Append(@, Entry(entry))]

insert_into(list, entry) ==
  LET pos == contains_entry(list, entry.url)
  IN IF IsSome(pos)
       THEN [list EXCEPT !.lines[Unwrap(pos) + 1] = Entry(entry)]
       ELSE [list EXCEPT !.lines = Append(@, Entry(entry))]

(* SourcesLists::insert_entry *)
insert_entry(fs, m, path, entry) ==
  LET pos == first_file([k \in 1..Len(fs) |-> fs[k].path = path])
  IN IF IsSome(pos)
       THEN LET id == Unwrap(pos)
            IN [files |-> [fs EXCEPT ![id + 1] = insert_into(@, entry)],
                modified |-> add_modified(m, as_u16(id))]
       ELSE [files |-> Append(fs, SourcesList(path, <<Entry(entry)>>)),
             modified |-> m]

(* SourcesLists::remove_entry *)
RECURSIVE remove_entry_loop(_, _, _, _)
remove_entry_loop(fs, m, repo, id) ==
  IF id >= Len(fs) THEN [files |-> fs, modified |-> m]
  ELSE LET line == contains_entry(fs[id + 1], repo)
       IN IF IsSome(line)
            THEN remove_entry_loop(
                   [fs EXCEPT ![id + 1].lines = vec_remove(@, Unwrap(line))],
                   add_modified(m, as_u16(id)), repo, id + 1)
            ELSE remove_entry_loop(fs, m, repo, id + 1)

remove_entry(fs, m, repo) == remove_entry_loop(fs, m, repo, 0)

(* the replacement testing the start of the suite, as dist_upgrade does *)
dist_replace_line_prefix(line, from_suite, to_suite) ==
  IF IsEntry(line) /\ starts_with(line.entry.suite, from_suite)
    THEN [line EXCEPT !.entry.suite = to_suite]
    ELSE line

(* SourcesLists::dist_replace *)
dist_replace_line(line, from_suite, to_suite) ==
  IF IsEntry(line) /\ line.entry.suite = from_suite
    THEN [line EXCEPT !.entry.suite = to_suite]
    ELSE line

RECURSIVE dist_replace_loop(_, _, _, _, _)
dist_replace_loop(fs, m, from_suite, to_suite, id) ==
  IF id >= Len(fs) THEN [files |-> fs, modified |-> m]
  ELSE LET old == fs[id + 1].lines
           new == [k \in 1..Len(old) |-> dist_replace_line(old[k], from_suite, to_suite)]
           changed == \E k \in 1..Len(old) :
                        IsEntry(old[k]) /\ old[k].entry.suite = from_suite
       IN dist_replace_loop([fs EXCEPT ![id + 1].lines = new],
                            IF changed THEN add_modified(m, as_u16(id)) ELSE m,
                            from_suite, to_suite, id + 1)

dist_replace(fs, m, from_suite, to_suite) ==
  dist_replace_loop(fs, m, from_suite, to_suite, 0)

(* the rename replacing the leading from_suite only *)
apply_line_first(line, from_suite, to_suite) ==
  IF IsEntry(line)
     /\ starts_with(line.entry.url, sHttp)
     /\ starts_with(line.entry.suite, from_suite)
    THEN [line EXCEPT !.entry.suite = to_suite \o Slice(@, Len(from_suite) + 1, Len(@))]
    ELSE line

(* the rename assigning to_suite instead of replacing from_suite in the suite *)
apply_line_assign(line, from_suite, to_suite) ==
  IF IsEntry(line)
     /\ starts_with(line.entry.url, sHttp)
     /\ starts_with(line.entry.suite, from_suite)
    THEN [line EXCEPT !.entry.suite = to_suite]
    ELSE line

(* dist_upgrade::apply, the rename of one line before it is written *)
apply_line(line, from_suite, to_suite) ==
  IF IsEntry(line)
     /\ starts_with(line.entry.url, sHttp)
     /\ starts_with(line.entry.suite, from_suite)
    THEN [line EXCEPT !.entry.suite = replace(@, from_suite, to_suite)]
    ELSE line

(* the closure of dist_upgrade's map_err: backups zipped with the files *)
restore_pairs_committed(fs, backups) ==
  [k \in 1..(IF Len(fs) < Len(backups) THEN Len(fs) ELSE Len(backups)) - 1 |->
     [original |-> fs[k].path, backup |-> backups[k]]]

restore_pairs(fs, backups) ==
  [k \in 1..(IF Len(fs) < Len(backups) THEN Len(fs) ELSE Len(backups)) |->
     [original |-> fs[k].path, backup |-> backups[k]]]

(* the restore loop; failing is the set of positions whose copy fails, and *)
(* a failed copy is reported and leaves its destination as it is.          *)
RECURSIVE restore_loop(_, _, _, _)
restore_loop(d, pairs, k, failing) ==
  IF k > Len(pairs) THEN d
  ELSE LET r == fs_copy(d, pairs[k].backup, pairs[k].original)
       IN restore_loop(IF r.ok /\ k \notin failing THEN r.val ELSE d,
                       pairs, k + 1, failing)

(* newfile: the copy of the original into its backup, made before the open *)
newfile_backup_after_truncate(d, path, backup) ==
  IF IsSome(d[path])
    THEN Ok([d EXCEPT ![path] = Some(<<>>), ![backup] = Some(<<>>)])
    ELSE Err("NotFound")

newfile_backup(d, path, backup) == fs_copy(d, path, backup)

(* what SourcesLists::write_sync leaves in `modified`: drain(..) empties   *)
(* the vector when the iterator is dropped, however far collect() got.     *)
drain_kept(m) == m

drain(m) == <<>>

(* SourcesLists::write_sync: ids are the drained ids still to write, n the *)
(* number already attempted; io names the attempt made to fail, if any,    *)
(* and whether it fails at the open or at the write after the truncation.  *)
RECURSIVE write_sync_loop(_, _, _, _, _)
write_sync_loop(d, fs, ids, n, io) ==
  IF ids = <<>> THEN [disk |-> d, ok |-> TRUE, attempted |-> n]
  ELSE LET list == fs[ids[1] + 1]
           opened == open_truncate(d, list.path)
       IN IF ~opened.ok \/ (io.at = n + 1 /\ io.step = "open")
            THEN [disk |-> d, ok |-> FALSE, attempted |-> n + 1]
          ELSE IF io.at = n + 1 /\ io.step = "write"
            THEN [disk |-> opened.val, ok |-> FALSE, attempted |-> n + 1]
          ELSE write_sync_loop(
                 fs_append(opened.val, list.path, SourcesList_write_text(list)),
                 fs, Tail(ids), n + 1, io)

-----------------------------------------------------------------------------
(* Bounds and the inputs drawn by the actions *)

MaxOps == 2

uX == <<"h", "t", "t", "p", ":", "x">>

uY == <<"h", "t", "t", "p", ":", "y">>

uZ == <<"f", "t", "p", ":", "z">>

suD == <<"d">>

suDU == <<"d", "-", "u">>

suC == <<"c">>

cM == <<"m">>

cR == <<"r">>

Line(tokens) == join(tokens, <<" ">>)

RECURSIVE Text(_)
Text(ls) == IF ls = <<>> THEN <<>> ELSE ls[1] \o <<"\n">> \o Text(Tail(ls))

MainTexts ==
  { Text(<<Line(<<sDeb, uX, suD, cM>>), Line(<<sDebSrc, uX, suD, cM>>)>>),
    Text(<<<<"#", " ", "c">>, <<>>, Line(<<sDeb, uX, suDU, cM>>)>>) }

PopTexts ==
  { Text(<<Line(<<sDeb, uY, suD, cM>>)>>),
    Text(<<Line(<<sDeb, uX, suD, cM>>), Line(<<sDeb, uZ, suD, cM>>)>>) }

ScanPaths == <<pMain, pPop>>

InitialDisks ==
  { [p \in AllPaths |-> IF p = pMain THEN Some(a) ELSE IF p = pPop THEN Some(b) ELSE None] :
      a \in MainTexts, b \in PopTexts }

InsertPaths == {pMain, pNew, pRoot}

InsertEntries ==
  { SourceEntry(TRUE, FALSE, None, uX, suC, <<cM>>),
    SourceEntry(TRUE, TRUE, None, uY, suD, <<cM>>) }

Urls == {uX, uY, uZ}

SuitePairs == { <<suD, suC>> }

(* dist_replace is also called with the suite the entries already have *)
ReplacePairs == SuitePairs \cup { <<suD, suD>> }

(* dist_upgrade is also called with the suite the entries already have *)
UpgradePairs == SuitePairs \cup { <<suD, suD>> }

IoFailures(n) ==
  {[at |-> 0, step |-> "none"]}
    \cup {[at |-> k, step |-> s] : k \in 1..n, s \in {"open", "write"}}

Range(s) == {s[k] : k \in 1..Len(s)}

-----------------------------------------------------------------------------
(* State.  files, modified: the fields of SourcesLists.  disk: the file    *)
(* system.  du: the frame of a dist_upgrade call (its local `modified` is  *)
(* du.backups), kept after the return.  last: the last completed call with *)
(* the state it started from.  nops: the number of completed calls.        *)
(* input, output: the argument and result of the line classifier.          *)

DuIdle(d) ==
  [pc |-> "idle", from_suite |-> <<>>, to_suite |-> <<>>, i |-> 0, j |-> 0,
   backups |-> <<>>, disk0 |-> d, files0 |-> <<>>, modified0 |-> <<>>,
   truncated |-> {}, step |-> "none"]

Call(op, ok, arg, fs0, m0, d0) ==
  [op |-> op, ok |-> ok, arg |-> arg, files0 |-> fs0, modified0 |-> m0, disk0 |-> d0]

Init ==
  /\ disk \in InitialDisks
  /\ \E c \in {new_from_paths(disk, ScanPaths)} :
        /\ c.ok
        /\ files = c.val.files
        /\ modified = c.val.modified
  /\ du = DuIdle(disk)
  /\ last = Call("new_from_paths", TRUE, [paths |-> ScanPaths], <<>>, <<>>, disk)
  /\ nops = 0
  /\ input = <<>>
  /\ output = None

Idle == du.pc = "idle" /\ nops < MaxOps

Returned(op, ok, arg) ==
  /\ last' = Call(op, ok, arg, files, modified, disk)
  /\ nops' = nops + 1

RepoModify(repo, enabled) ==
  /\ Idle
  /\ \E r \in {repo_modify(files, modified, repo, enabled)} :
        /\ files' = r.files
        /\ modified' = r.modified
        /\ Returned("repo_modify", r.ret, [repo |-> repo, enabled |-> enabled])
  /\ UNCHANGED <<disk, du, parsevars>>

InsertEntry(path, entry) ==
  /\ Idle
  /\ \E r \in {insert_entry(files, modified, path, entry)} :
        /\ files' = r.files
        /\ modified' = r.modified
  /\ Returned("insert_entry", TRUE, [path |-> path, entry |-> entry])
  /\ UNCHANGED <<disk, du, parsevars>>

RemoveEntry(repo) ==
  /\ Idle
  /\ \E r \in {remove_entry(files, modified, repo)} :
        /\ files' = r.files
        /\ modified' = r.modified
  /\ Returned("remove_entry", TRUE, [repo |-> repo])
  /\ UNCHANGED <<disk, du, parsevars>>

Entries ==
  /\ Idle
  /\ Returned("entries", TRUE, [yielded |-> entries(files)])
  /\ UNCHANGED <<files, modified, disk, du, parsevars>>

DistReplace(from_suite, to_suite) ==
  /\ Idle
  /\ \E r \in {dist_replace(files, modified, from_suite, to_suite)} :
        /\ files' = r.files
        /\ modified' = r.modified
  /\ Returned("dist_replace", TRUE, [from_suite |-> from_suite, to_suite |-> to_suite])
  /\ UNCHANGED <<disk, du, parsevars>>

WriteSync(io) ==
  /\ Idle
  /\ \E r \in {write_sync_loop(disk, files, modified, 0, io)} :
        /\ io.at = 0 \/ (r.attempted = io.at /\ ~r.ok)
        /\ disk' = r.disk
        /\ modified' = drain(modified)
        /\ Returned("write_sync", r.ok, [attempted |-> r.attempted])
  /\ UNCHANGED <<files, du, parsevars>>

-----------------------------------------------------------------------------
(* dist_upgrade, step by step: apply's loop over the files (du.i, 1-based) *)
(* and over the lines of the current file (du.j), then either the return   *)
(* of Ok or the restore closure and the return of the error.               *)

DistUpgradeCall(from_suite, to_suite) ==
  /\ Idle
  /\ du' = [pc |-> "newfile", from_suite |-> from_suite, to_suite |-> to_suite,
            i |-> 1, j |-> 0, backups |-> <<>>, disk0 |-> disk, files0 |-> files,
            modified0 |-> modified, truncated |-> {}, step |-> "none"]
  /\ UNCHANGED <<files, modified, disk, last, nops, parsevars>>

Failed(step) == du' = [du EXCEPT !.pc = "restore", !.step = step]

(* newfile up to `modified.push(backup_path)` *)
Newfile(fail) ==
  /\ du.pc = "newfile"
  /\ du.i <= Len(files)
  /\ LET path == files[du.i].path
         backup == backup_path(path)
     IN \/ /\ ~IsSome(backup)
           /\ Failed("filename")
           /\ UNCHANGED disk
        \/ /\ IsSome(backup)
           /\ fail \/ ~newfile_backup(disk, path, Unwrap(backup)).ok
           /\ Failed("copy")
           /\ UNCHANGED disk
        \/ /\ IsSome(backup)
           /\ ~fail
           /\ newfile_backup(disk, path, Unwrap(backup)).ok
           /\ disk' = newfile_backup(disk, path, Unwrap(backup)).val
           /\ du' = [du EXCEPT !.pc = "open", !.backups = Append(@, Unwrap(backup))]
  /\ UNCHANGED <<files, modified, last, nops, parsevars>>

(* newfile's open for truncation *)
NewfileOpen(fail) ==
  /\ du.pc = "open"
  /\ LET path == files[du.i].path
         opened == open_truncate(disk, path)
     IN \/ /\ fail \/ ~opened.ok
           /\ Failed("open")
           /\ UNCHANGED disk
        \/ /\ ~fail
           /\ opened.ok
           /\ disk' = opened.val
           /\ du' = [du EXCEPT !.pc = "lines", !.j = 1,
                               !.truncated = @ \cup {path}]
  /\ UNCHANGED <<files, modified, last, nops, parsevars>>

(* one turn of the loop over list.lines: rename, then writeln! *)
ApplyLine(fail) ==
  /\ du.pc = "lines"
  /\ du.j <= Len(files[du.i].lines)
  /\ LET line == apply_line(files[du.i].lines[du.j], du.from_suite, du.to_suite)
     IN /\ files' = [files EXCEPT ![du.i].lines[du.j] = line]
        /\ \/ /\ fail
              /\ Failed("write")
              /\ UNCHANGED disk
           \/ /\ ~fail
              /\ disk' = fs_append(disk, files[du.i].path, SourceLine_fmt(line) \o <<"\n">>)
              /\ du' = [du EXCEPT !.j = @ + 1]
  /\ UNCHANGED <<modified, last, nops, parsevars>>

(* current_file.flush() and the step to the next file *)
Flush(fail) ==
  /\ du.pc = "lines"
  /\ du.j > Len(files[du.i].lines)
  /\ \/ /\ fail
        /\ Failed("flush")
     \/ /\ ~fail
        /\ du' = [du EXCEPT !.pc = "newfile", !.i = @ + 1, !.j = 0]
  /\ UNCHANGED <<files, modified, disk, last, nops, parsevars>>

DistUpgradeArg(restored) ==
  [from_suite |-> du.from_suite, to_suite |-> du.to_suite, k |-> du.i,
   step |-> du.step, restored |-> restored]

(* apply returned Ok(()) *)
DistUpgradeOk ==
  /\ du.pc = "newfile"
  /\ du.i > Len(files)
  /\ du' = [du EXCEPT !.pc = "idle"]
  /\ last' = Call("dist_upgrade", TRUE, DistUpgradeArg(TRUE),
                  du.files0, du.modified0, du.disk0)
  /\ nops' = nops + 1
  /\ UNCHANGED <<files, modified, disk, parsevars>>

(* apply returned an error: the restore closure, then the error is returned *)
DistUpgradeErr(failing) ==
  /\ du.pc = "restore"
  /\ LET pairs == restore_pairs(files, du.backups)
     IN /\ failing \subseteq 1..Len(pairs)
        /\ disk' = restore_loop(disk, pairs, 1, failing)
  /\ du' = [du EXCEPT !.pc = "idle"]
  /\ last' = Call("dist_upgrade", FALSE, DistUpgradeArg(failing = {}),
                  du.files0, du.modified0, du.disk0)
  /\ nops' = nops + 1
  /\ UNCHANGED <<files, modified, parsevars>>

Next ==
  \/ \E repo \in Urls, enabled \in BOOLEAN : RepoModify(repo, enabled)
  \/ \E path \in InsertPaths, entry \in InsertEntries : InsertEntry(path, entry)
  \/ \E repo \in Urls : RemoveEntry(repo)
  \/ Entries
  \/ \E p \in ReplacePairs : DistReplace(p[1], p[2])
  \/ \E io \in IoFailures(Len(modified)) : WriteSync(io)
  \/ \E p \in UpgradePairs : DistUpgradeCall(p[1], p[2])
  \/ \E fail \in BOOLEAN : Newfile(fail)
  \/ \E fail \in BOOLEAN : NewfileOpen(fail)
  \/ \E fail \in BOOLEAN : ApplyLine(fail)
  \/ \E fail \in BOOLEAN : Flush(fail)
  \/ DistUpgradeOk
  \/ \E failing \in SUBSET (1..Len(files)) : DistUpgradeErr(failing)

Spec == Init /\ [][Next]_vars

-----------------------------------------------------------------------------
(* The line classifier on its own: Init draws a raw line, Classify applies *)
(* SourceLine::from_str to it.                                             *)

Markers == { <<>>, <<"#">>, <<"#", " ">>, <<" ", "#", " ">> }

Kinds == { sDeb, sDebSrc, <<"f", "t", "p">> }

OptionTexts ==
  { <<>>, <<"[", "o", "]", " ">>, <<"[", " ", "o", " ", "]", " ">>, <<"[", "o", "]">> }

ComponentTexts == { <<>>, <<" ">> \o cM, <<" ">> \o cM \o <<" ">> \o cR }

sExample ==
  <<"#", " ">> \o Line(<<sDeb, <<"h", "t", "t", "p", ":", "/", "/", "x", "/">>,
                         <<"c", "o", "s", "m", "i", "c">>,
                         <<"m", "a", "i", "n">>>>)

ParseInputs ==
  { m \o k \o <<" ">> \o o \o uX \o <<" ">> \o suD \o c :
      m \in Markers, k \in Kinds, o \in OptionTexts, c \in ComponentTexts }
    \cup { <<>>, <<" ", " ">>, <<"#">>, <<"#", " ", "c">>, sDeb, <<"#", " ">> \o sDeb,
           sExample }

ParseInit ==
  /\ input \in ParseInputs
  /\ output = None
  /\ files = <<>>
  /\ modified = <<>>
  /\ disk = [p \in AllPaths |-> None]
  /\ du = DuIdle(disk)
  /\ last = Call("none", TRUE, [paths |-> <<>>], <<>>, <<>>, disk)
  /\ nops = 0

Classify ==
  /\ output = None
  /\ output' = Some(SourceLine_from_str(input))
  /\ UNCHANGED <<input, collvars>>

ParseNext == Classify

ParseSpec == ParseInit /\ [][ParseNext]_vars

-----------------------------------------------------------------------------
(* The specifications of the pure functions leave the collection alone *)

NoCollection ==
  /\ files = <<>>
  /\ modified = <<>>
  /\ disk = [p \in AllPaths |-> None]
  /\ du = DuIdle(disk)
  /\ last = Call("none", TRUE, [paths |-> <<>>], <<>>, <<>>, disk)
  /\ nops = 0

-----------------------------------------------------------------------------
(* Format then parse: Init draws an Entry value, FormatParse formats it    *)
(* with Display and parses the text with SourceEntry::from_str.            *)

EntryOptions ==
  { None, Some(<<>>), Some(<<"o">>), Some(<<"a", " ", "b">>), Some(<<"a", "]", "b">>) }

EntryUrls == { uX, <<"[", "u">>, <<"u", " ", "v">> }

EntrySuites == { suD, <<>> }

EntryComponents == { <<>>, <<cM>>, <<cM, cR>>, <<<<"m", " ", "r">>>> }

EntryValues ==
  { SourceEntry(en, src, o, u, s, c) :
      en \in BOOLEAN, src \in BOOLEAN, o \in EntryOptions, u \in EntryUrls,
      s \in EntrySuites, c \in EntryComponents }

RoundTripInit ==
  /\ input \in EntryValues
  /\ output = None
  /\ NoCollection

FormatParse ==
  /\ output = None
  /\ \E text \in {SourceEntry_fmt(input)} :
       output' = Some([formatted |-> text, parsed |-> SourceEntry_from_str(text)])
  /\ UNCHANGED <<input, collvars>>

RoundTripNext == FormatParse

RoundTripSpec == RoundTripInit /\ [][RoundTripNext]_vars

-----------------------------------------------------------------------------
(* The entry parser on raw lines: Init draws a line, ParseEntry parses it  *)
(* with SourceEntry::from_str and, when it is accepted, formats the Entry  *)
(* and parses the formatted text again.                                    *)

sp == <<" ">>

(* the five spacings of an option list `o` before the url U *)
Placement(n, o, U) ==
  CASE n = 1 -> <<"[">> \o sp \o o \o sp \o <<"]">> \o sp \o U
    [] n = 2 -> <<"[">> \o o \o sp \o <<"]">> \o sp \o U
    [] n = 3 -> <<"[">> \o sp \o o \o <<"]">> \o sp \o U
    [] n = 4 -> <<"[">> \o o \o <<"]">> \o U
    [] n = 5 -> <<"[">> \o sp \o o \o sp \o <<"]">> \o U

LineOptions == { <<"o">>, <<"a", "=", "b">> }

LineUrls == { uX, <<"[", "x", "]">> }

LineHeads == { sDeb, sDebSrc, sp \o sDeb }

LineTails ==
  { <<>>, sp \o suD, sp \o suD \o sp \o cM, sp \o suD \o sp \o cM \o sp \o cR,
    sp \o sp \o suD \o sp \o sp \o cM \o sp }

LinePrefixes(U) ==
  { Placement(n, o, U) : n \in 1..5, o \in LineOptions }
    \cup { <<"[">> \o o \o <<"]">> \o sp \o U : o \in LineOptions }
    \cup { U,
           <<"[", "]">> \o sp \o U,
           <<"[", "]">> \o U,
           <<"[", "a", " ", "b", "]">> \o sp \o U,
           <<"[", "o">> \o sp \o U }

EntryLines ==
  { h \o sp \o p \o t : h \in LineHeads, p \in UNION { LinePrefixes(U) : U \in LineUrls },
                        t \in LineTails }
    \cup { <<>>, sp, sDeb, sDebSrc \o sp,
           <<"f", "t", "p">> \o sp \o uX \o sp \o suD \o sp \o cM,
           <<"#">> \o sp \o sDeb \o sp \o uX \o sp \o suD,
           sDeb \o sp \o <<"[", "o">>,
           sDeb \o sp \o <<"[", "o", "]">>,
           sDeb \o sp \o <<"[", " ", "o", " ", "]">>,
           sDeb \o sp \o <<"[", " ", "o">> }

EntryInit ==
  /\ input \in EntryLines
  /\ output = None
  /\ NoCollection

ParseEntry ==
  /\ output = None
  /\ \E r \in {SourceEntry_from_str(input)} :
       \E text \in {IF r.ok THEN Some(SourceEntry_fmt(r.val)) ELSE None} :
         output' = Some([parsed |-> r,
                         formatted |-> text,
                         reparsed |-> IF IsSome(text)
                                        THEN Some(SourceEntry_from_str(Unwrap(text)))
                                        ELSE None])
  /\ UNCHANGED <<input, collvars>>

EntryNext == ParseEntry

EntrySpec == EntryInit /\ [][EntryNext]_vars

-----------------------------------------------------------------------------
(* Loading: Init draws, for each path of ScanPaths, no file or the lines   *)
(* of a file; Scan is SourcesLists::new_from_paths over those paths.       *)

MaxLines == 3

LoadLines ==
  { Line(<<sDeb, uX, suD, cM>>), <<"#", " ", "c">>,
    Line(<<<<"f", "t", "p">>, uX, suD>>), sDeb }

MainLoads ==
  {None} \cup { Some(ls) : ls \in UNION { [1..n -> LoadLines] : n \in 0..MaxLines } }

PopLoads ==
  { None, Some(<<>>), Some(<<Line(<<sDeb, uY, suD, cM>>)>>),
    Some(<<Line(<<sDeb, uY, suD, cM>>), Line(<<sDebSrc, uY>>)>>) }

LoadDisk(loads) ==
  [p \in AllPaths |->
     IF p = pMain THEN (IF IsSome(loads[1]) THEN Some(Text(Unwrap(loads[1]))) ELSE None)
     ELSE IF p = pPop THEN (IF IsSome(loads[2]) THEN Some(Text(Unwrap(loads[2]))) ELSE None)
     ELSE None]

LoadInit ==
  /\ input \in MainLoads \X PopLoads
  /\ output = None
  /\ disk = LoadDisk(input)
  /\ files = <<>>
  /\ modified = <<>>
  /\ du = DuIdle(disk)
  /\ last = Call("none", TRUE, [paths |-> <<>>], <<>>, <<>>, disk)
  /\ nops = 0

Scan ==
  /\ output = None
  /\ \E r \in {new_from_paths(disk, ScanPaths)} :
       /\ output' = Some(r)
       /\ files' = IF r.ok THEN r.val.files ELSE files
       /\ modified' = IF r.ok THEN r.val.modified ELSE modified
  /\ UNCHANGED <<input, disk, du, last, nops>>

LoadNext == Scan

LoadSpec == LoadInit /\ [][LoadNext]_vars

-----------------------------------------------------------------------------
(* Release upgrades on their own: the collection of Init, and dist_upgrade *)
(* called again and again, also with a new suite that starts with the old  *)
(* one.                                                                    *)

suDD == <<"d", "-", "d">>

UpgradeSuites == UpgradePairs \cup { <<suD, suDD>> }

UpgradeNext ==
  \/ \E p \in UpgradeSuites : DistUpgradeCall(p[1], p[2])
  \/ \E fail \in BOOLEAN : Newfile(fail)
  \/ \E fail \in BOOLEAN : NewfileOpen(fail)
  \/ \E fail \in BOOLEAN : ApplyLine(fail)
  \/ \E fail \in BOOLEAN : Flush(fail)
  \/ DistUpgradeOk
  \/ \E failing \in SUBSET (1..Len(files)) : DistUpgradeErr(failing)

UpgradeSpec == Init /\ [][UpgradeNext]_vars

-----------------------------------------------------------------------------
(* lib.rs: the earlier parser of an entry, SourceEntry::parse_line.  Its   *)
(* SourceEntry has no `enabled` field.                                     *)

LegacyEntry(source, options, url, suite, components) ==
  [source |-> source, options |-> options, url |-> url, suite |-> suite,
   components |-> components]

(* the loop over the tokens of an option list that the second token opens *)
RECURSIVE parse_line_loop(_, _, _)
parse_line_loop(fields, k, acc) ==
  IF k > Len(fields) THEN Err(MissingField("option"))
  ELSE LET next == fields[k]
           pos == find(next, "]")
       IN IF IsSome(pos)
            THEN Ok([options |-> Some(acc \o Slice(next, 1, Unwrap(pos))),
                     leftover |-> IF Unwrap(pos) # Len(next) - 1
                                    THEN Some(Slice(next, Unwrap(pos) + 2, Len(next)))
                                    ELSE None,
                     k |-> k + 1])
            ELSE parse_line_loop(fields, k + 1, acc \o next)

(* the branch taken when the second token starts with '[': when `]` is the *)
(* last character of the token, the whole of `field` is stored.            *)
parse_line_options(fields) ==
  LET field == Tail(fields[2])
      pos == find(field, "]")
  IN IF IsSome(pos)
       THEN IF Unwrap(pos) = Len(field) - 1
              THEN Ok([options |-> Some(field), leftover |-> None, k |-> 3])
              ELSE Ok([options |-> Some(Slice(field, 1, Unwrap(pos))),
                       leftover |-> Some(Slice(field, Unwrap(pos) + 2, Len(field))),
                       k |-> 3])
       ELSE parse_line_loop(fields, 3, field)

(* the tail of parse_line: suite, then at least one component *)
parse_line_suite(fields, source, options, url, k) ==
  IF k > Len(fields) THEN Err(MissingField("suite"))
  ELSE IF k + 1 > Len(fields) THEN Err(MissingField("component"))
  ELSE Ok(LegacyEntry(source, options, url, fields[k], Slice(fields, k + 1, Len(fields))))

(* SourceEntry::parse_line *)
parse_line(line) ==
  LET fields == split_whitespace(line)
  IN IF Len(fields) = 0 THEN Err(MissingField("source"))
     ELSE IF fields[1] # sDeb /\ fields[1] # sDebSrc
       THEN Err(InvalidValue("source", fields[1]))
     ELSE IF Len(fields) < 2 THEN Err(MissingField("url"))
     ELSE LET source == (fields[1] = sDebSrc)
          IN IF starts_with(fields[2], <<"[">>)
               THEN LET o == parse_line_options(fields)
                    IN IF ~o.ok THEN o
                       ELSE IF IsSome(o.val.leftover)
                         THEN parse_line_suite(fields, source, o.val.options,
                                               Unwrap(o.val.leftover), o.val.k)
                       ELSE IF o.val.k > Len(fields) THEN Err(MissingField("url"))
                       ELSE parse_line_suite(fields, source, o.val.options,
                                             fields[o.val.k], o.val.k + 1)
               ELSE parse_line_suite(fields, source, None, fields[2], 3)

(* Both parsers on the same raw line *)
ParseLine ==
  /\ output = None
  /\ \E cur \in {SourceEntry_from_str(input)} :
       \E old \in {parse_line(input)} :
         output' = Some([current |-> cur, legacy |-> old])
  /\ UNCHANGED <<input, collvars>>

LegacyNext == ParseLine

LegacySpec == EntryInit /\ [][LegacyNext]_vars

-----------------------------------------------------------------------------
(* lib.rs: the earlier SourcesList, one vector of lines for all files, and *)
(* its iterator SourcesIter.  Init is the state after SourcesList::scan    *)
(* has succeeded and SourcesIter::new was called; IterNext is one call of  *)
(* SourcesIter::next by the `for` loop, which stops at None.               *)

(* `as u32`: the lengths and tickets of the model are far below 2^32,    *)
(* where the cast keeps the value                                          *)
as_u32(n) == n

(* SourceLine::parse_line *)
SourceLine_parse_line(raw) ==
  LET line == trim(raw)
  IN IF starts_with(line, <<"#">>) THEN Ok(Comment(line))
     ELSE IF line = <<>> THEN Ok(Empty)
     ELSE Let(parse_line(line), LAMBDA entry :
            IF entry.ok THEN Ok(Entry(entry.val)) ELSE entry)

(* SourcesList::scan, the loop over the lines of the file with ticket id *)
RECURSIVE scan_lines(_, _, _, _)
scan_lines(ls, no, id, list) ==
  IF no >= Len(ls) THEN Ok(list)
  ELSE Let(SourceLine_parse_line(ls[no + 1]), LAMBDA entry :
         IF ~entry.ok THEN Err([type |-> "IO", line |-> no, why |-> entry.err])
         ELSE Let([list EXCEPT !.entries = Append(@, entry.val),
                               !.origins = Append(@, as_u32(id))],
                  LAMBDA pushed : scan_lines(ls, no + 1, id, pushed)))

(* SourcesList::scan, the loop over the paths: loads[id + 1] is what       *)
(* BufReader::lines gives for paths[id + 1]                                *)
RECURSIVE scan_files(_, _, _)
scan_files(loads, id, list) ==
  IF id >= Len(list.paths) THEN Ok(list)
  ELSE Let(scan_lines(loads[id + 1], 0, id, list), LAMBDA r :
         IF ~r.ok THEN r ELSE scan_files(loads, id + 1, r.val))

scan(paths, loads) ==
  scan_files(loads, 0, [entries |-> <<>>, origins |-> <<>>, paths |-> paths])

NewList(path) == [event |-> "NewList", path |-> path]

EntryEvent(line) == [event |-> "Entry", line |-> line]

(* SourcesIter::new *)
SourcesIter_new == [position |-> 0, last_path |-> 0, started |-> FALSE]

(* next() with the change of file told by the ticket alone *)
SourcesIter_next_unstarted(list, it) ==
  IF as_u32(Len(list.entries)) > it.position
    THEN LET new_path == list.origins[it.position + 1]
         IN IF new_path # it.last_path
              THEN [it |-> [it EXCEPT !.started = TRUE, !.last_path = new_path],
                    event |-> Some(NewList(list.paths[new_path + 1]))]
              ELSE [it |-> [it EXCEPT !.position = as_u32(@ + 1)],
                    event |-> Some(EntryEvent(list.entries[it.position + 1]))]
    ELSE [it |-> it, event |-> None]

(* SourcesIter::next *)
SourcesIter_next(list, it) ==
  IF as_u32(Len(list.entries)) > it.position
    THEN LET new_path == list.origins[it.position + 1]
         IN IF ~it.started \/ new_path # it.last_path
              THEN [it |-> [it EXCEPT !.started = TRUE, !.last_path = new_path],
                    event |-> Some(NewList(list.paths[new_path + 1]))]
              ELSE [it |-> [it EXCEPT !.position = as_u32(@ + 1)],
                    event |-> Some(EntryEvent(list.entries[it.position + 1]))]
    ELSE [it |-> it, event |-> None]

MaxFileLines == 2

IterLines == { Line(<<sDeb, uX, suD, cM>>), <<"#", " ", "c">> }

IterPaths == <<pMain, pPop, pNew>>

IterLoads ==
  [1..Len(IterPaths) -> UNION { [1..n -> IterLines] : n \in 0..MaxFileLines }]

IterInit ==
  /\ \E loads \in IterLoads :
       \E r \in {scan(IterPaths, loads)} :
         /\ r.ok
         /\ input = [loads |-> loads, list |-> r.val]
  /\ output = [it |-> SourcesIter_new, events |-> <<>>, done |-> FALSE]
  /\ NoCollection

IterNext ==
  /\ ~output.done
  /\ \E r \in {SourcesIter_next(input.list, output.it)} :
       output' = [it |-> r.it,
                  events |-> IF IsSome(r.event)
                               THEN Append(output.events, Unwrap(r.event))
                               ELSE output.events,
                  done |-> ~IsSome(r.event)]
  /\ UNCHANGED <<input, collvars>>

IterSpec == IterInit /\ [][IterNext]_vars /\ WF_vars(IterNext)

-----------------------------------------------------------------------------
(* Properties *)

ReturnedFrom(op) == du.pc = "idle" /\ last.op = op

OnDisk(d, fs) == [k \in 1..Len(fs) |-> d[fs[k].path]]

(* C1: when dist_upgrade has returned an error and every restore copy      *)
(* succeeded, the path of every File holds what it held before the call.   *)
C1_RestoredOnError ==
  (ReturnedFrom("dist_upgrade") /\ ~last.ok /\ last.arg.restored)
    => OnDisk(disk, files) = OnDisk(last.disk0, files)

(* a failure in the second File, after the first was rewritten and renamed *)
C1_Witness ==
  /\ ReturnedFrom("dist_upgrade") /\ ~last.ok /\ last.arg.restored
  /\ last.arg.k = 2
  /\ last.arg.step = "write"
  /\ files[1] # last.files0[1]

(* C2: during dist_upgrade and after it, every path that was opened for    *)
(* truncation has a `.save` sibling holding the content the path had when  *)
(* dist_upgrade was called.                                                *)
C2_BackupBeforeTruncate ==
  \A path \in du.truncated :
    /\ IsSome(backup_path(path))
    /\ disk[Unwrap(backup_path(path))] = du.disk0[path]

(* a successful run that changed a file on disk *)
C2_Witness ==
  /\ ReturnedFrom("dist_upgrade") /\ last.ok
  /\ du.truncated = {files[k].path : k \in 1..Len(files)}
  /\ \E path \in du.truncated : disk[path] # du.disk0[path]

(* C3: after a failed write_sync the Files not yet attempted are still in  *)
(* the dirty set.                                                          *)
C3_UnattemptedStayDirty ==
  (ReturnedFrom("write_sync") /\ ~last.ok)
    => \A k \in (last.arg.attempted + 1)..Len(last.modified0) :
         last.modified0[k] \in Range(modified)

(* C4: after a successful write_sync the dirty set is empty, every File    *)
(* that was dirty holds on disk what write_sync writes for it, and the     *)
(* path of every other File is as it was.                                  *)
C4_WriteSyncSuccess ==
  (ReturnedFrom("write_sync") /\ last.ok)
    => /\ modified = <<>>
       /\ \A k \in 1..Len(files) :
            IF (k - 1) \in Range(last.modified0)
              THEN disk[files[k].path] = Some(SourcesList_write_text(files[k]))
              ELSE disk[files[k].path] = last.disk0[files[k].path]

(* a successful write of some dirty Files while another File is clean *)
C4_Witness ==
  /\ ReturnedFrom("write_sync") /\ last.ok
  /\ last.modified0 # <<>>
  /\ \E k \in 1..Len(files) : (k - 1) \notin Range(last.modified0)
  /\ disk # last.disk0

IsCommentedEntry(raw) ==
  /\ starts_with(trim(raw), <<"#">>)
  /\ SourceEntry_from_str(trim(Tail(trim(raw)))).ok

(* C5: a line that is `#` followed by a valid entry classifies as an Entry *)
(* with enabled = FALSE, and the example line formats back to itself.      *)
C5_DisabledEntry ==
  (IsSome(output) /\ IsCommentedEntry(input))
    => /\ Unwrap(output).ok
       /\ Unwrap(output).val.kind = "Entry"
       /\ ~Unwrap(output).val.entry.enabled
       /\ (input = sExample => SourceLine_fmt(Unwrap(output).val) = sExample)

IsCommentedSourceEntry(raw) ==
  /\ starts_with(raw, <<"#", " ">> \o sDebSrc \o <<" ">>)
  /\ trim(raw) = raw
  /\ SourceEntry_from_str(Slice(raw, 3, Len(raw))).ok

(* C6: a line `# deb-src URL SUITE COMPONENT...` classifies as a Comment   *)
(* that holds exactly the text of the line.                                *)
C6_CommentedSourceIsComment ==
  (IsSome(output) /\ IsCommentedSourceEntry(input))
    => Unwrap(output) = Ok(Comment(input))

C6_Witness ==
  /\ IsSome(output)
  /\ IsCommentedSourceEntry(input)
  /\ Len(SourceEntry_from_str(Slice(input, 3, Len(input))).val.components) >= 1

(* C7: after remove_entry(url) no File has an Entry line with that url *)
C7_RemovedEverywhere ==
  ReturnedFrom("remove_entry")
    => \A k \in 1..Len(files) : contains_entry(files[k], last.arg.repo) = None

TargetFiles(fs, path) == {k \in 1..Len(fs) : fs[k].path = path}

UrlLines(ls, url) == {j \in 1..Len(ls) : IsEntry(ls[j]) /\ ls[j].entry.url = url}

Least(S) == CHOOSE x \in S : \A y \in S : x <= y

(* C8: insert_entry on a File of the Collection replaces the first Entry   *)
(* line with the entry's url, or appends the entry when there is none;     *)
(* contains_entry then returns that position, the File has grown by at     *)
(* most one Line and the other Files are unchanged.                        *)
C8_InsertInPlaceOrAppend ==
  (ReturnedFrom("insert_entry") /\ TargetFiles(last.files0, last.arg.path) # {})
    => LET k == Least(TargetFiles(last.files0, last.arg.path))
           old == last.files0[k].lines
           new == files[k].lines
           e == last.arg.entry
           hits == UrlLines(old, e.url)
           placed == IF hits # {} THEN Least(hits) ELSE Len(old) + 1
       IN /\ Len(files) = Len(last.files0)
          /\ new = IF hits # {} THEN [old EXCEPT ![placed] = Entry(e)]
                                ELSE Append(old, Entry(e))
          /\ contains_entry(files[k], e.url) = Some(placed - 1)
          /\ Len(new) <= Len(old) + 1
          /\ \A j \in 1..Len(files) : j # k => files[j] = last.files0[j]

(* an insert that replaced the first of two Entry lines with the same url *)
C8_Witness ==
  /\ ReturnedFrom("insert_entry")
  /\ TargetFiles(last.files0, last.arg.path) # {}
  /\ LET k == Least(TargetFiles(last.files0, last.arg.path))
     IN /\ Cardinality(UrlLines(last.files0[k].lines, last.arg.entry.url)) = 2
        /\ files[k] # last.files0[k]

(* C9: after insert_entry the target File is in the dirty set *)
C9_InsertMarksDirty ==
  (ReturnedFrom("insert_entry") /\ last.ok)
    => \E k \in 1..Len(files) :
         files[k].path = last.arg.path /\ (k - 1) \in Range(modified)

(* C10: the dirty set holds no index twice and only positions of Files *)
C10_DirtySetWellFormed ==
  /\ \A a, b \in 1..Len(modified) : a # b => modified[a] # modified[b]
  /\ \A a \in 1..Len(modified) : modified[a] \in 0..(Len(files) - 1)

(* a call that changed a File which was already in the dirty set *)
C10_Witness ==
  /\ du.pc = "idle"
  /\ last.op \in {"repo_modify", "insert_entry", "remove_entry", "dist_replace"}
  /\ last.modified0 # <<>>
  /\ modified = last.modified0
  /\ files # last.files0
  /\ Len(files) = Len(last.files0)

IsToken(t) == t # <<>> /\ \A k \in 1..Len(t) : ~IsWhitespace(t[k])

(* an enabled Entry whose fields are what the grammar can carry: options   *)
(* absent or a token without `]`, url a token that is not taken for an     *)
(* option list, suite and components tokens                                *)
IsCanonicalEntry(e) ==
  /\ e.enabled
  /\ IsSome(e.options) => (IsToken(Unwrap(e.options)) /\ find(Unwrap(e.options), "]") = None)
  /\ IsToken(e.url)
  /\ ~IsSome(e.options) => e.url[1] # "["
  /\ IsToken(e.suite)
  /\ \A k \in 1..Len(e.components) : IsToken(e.components[k])

(* C11, as stated: parsing the formatted text of any Entry gives the Entry *)
C11_RoundTrip ==
  IsSome(output) => Unwrap(output).parsed = Ok(input)

(* C11, amended: parsing the formatted text of an enabled Entry whose      *)
(* fields are whitespace-free non-empty tokens (options absent or a token  *)
(* without `]`, url not starting with `[` when options are absent) gives   *)
(* back the Entry.                                                         *)
C11_RoundTripCanonical ==
  (IsSome(output) /\ IsCanonicalEntry(input)) => Unwrap(output).parsed = Ok(input)

C11_Witness ==
  /\ IsSome(output)
  /\ IsCanonicalEntry(input)
  /\ IsSome(input.options)
  /\ input.source
  /\ Len(input.components) = 2


(* C12, as stated: the formatted text of every accepted line parses again  *)
(* to the same kind, options, url, suite and components                    *)
C12_FormatStable ==
  (IsSome(output) /\ Unwrap(output).parsed.ok) =>
    LET e == Unwrap(output).parsed.val
        r == Unwrap(Unwrap(output).reparsed)
    IN /\ r.ok
       /\ r.val.source = e.source
       /\ r.val.options = e.options
       /\ r.val.url = e.url
       /\ r.val.suite = e.suite
       /\ r.val.components = e.components

(* C13: the five spacings of `[o]` before the url all parse to the enabled *)
(* binary Entry with options o, url U, suite S and the one component C     *)
C13_BracketPlacements ==
  \A n \in 1..5, o \in LineOptions, U \in LineUrls :
    (IsSome(output) /\ input = sDeb \o sp \o Placement(n, o, U) \o sp \o suD \o sp \o cM) =>
      Unwrap(output).parsed = Ok(SourceEntry(TRUE, FALSE, Some(o), U, suD, <<cM>>))

C13_Witness ==
  /\ IsSome(output)
  /\ input = sDeb \o sp \o Placement(5, <<"a", "=", "b">>, uX) \o sp \o suD \o sp \o cM
  /\ Unwrap(output).parsed.ok

(* the error the grammar asks for, from the text of the line: None when    *)
(* kind, url and suite are all there                                       *)
ExpectedError(line) ==
  LET fields == split_whitespace(line)
  IN IF fields = <<>> THEN Some(MissingField("source"))
     ELSE IF fields[1] \notin {sDeb, sDebSrc} THEN Some(InvalidValue("source", fields[1]))
     ELSE LET rest == join(Tail(fields), sp)
          IN IF rest = <<>> THEN Some(MissingField("url"))
             ELSE IF rest[1] # "["
               THEN IF Len(fields) = 2 THEN Some(MissingField("suite")) ELSE None
             ELSE LET pos == find(Tail(rest), "]")
                  IN IF ~IsSome(pos) THEN Some(MissingField("option"))
                     ELSE LET after == split_whitespace(
                                         Slice(Tail(rest), Unwrap(pos) + 2, Len(rest) - 1))
                          IN IF after = <<>> THEN Some(MissingField("url"))
                             ELSE IF Len(after) = 1 THEN Some(MissingField("suite"))
                             ELSE None

(* C14: the parser reports the first token that is missing or bad: source  *)
(* when the line has no token, the bad first token, url after a lone kind  *)
(* or after a closed option list, option when `[` is never closed, suite   *)
(* when nothing follows the url; and it accepts every other line           *)
C14_FirstMissingField ==
  IsSome(output) =>
    IF IsSome(ExpectedError(input))
      THEN Unwrap(output).parsed = Err(Unwrap(ExpectedError(input)))
      ELSE Unwrap(output).parsed.ok

C14_Witness ==
  /\ IsSome(output)
  /\ input = sDeb \o sp \o <<"[", " ", "o">>
  /\ Unwrap(output).parsed = Err(MissingField("option"))


(* C15, as stated: a `#` line that is not a parseable entry classifies as  *)
(* a Comment holding the line unchanged and formats back to it; a blank or *)
(* whitespace-only line classifies as Empty and formats as the empty text  *)
C15_NonEntryVerbatim ==
  IsSome(output) =>
    /\ (starts_with(trim(input), <<"#">>) /\ ~IsCommentedEntry(input))
         => /\ Unwrap(output) = Ok(Comment(input))
            /\ SourceLine_fmt(Unwrap(output).val) = input
    /\ trim(input) = <<>>
         => /\ Unwrap(output) = Ok(Empty)
            /\ SourceLine_fmt(Unwrap(output).val) = <<>>


(* positions <<file, line>> (1-based) of the Entry lines of fs with the url *)
UrlPositions(fs, url) ==
  { <<k, j>> \in UNION { {k} \X (1..Len(fs[k].lines)) : k \in 1..Len(fs) } :
      IsEntry(fs[k].lines[j]) /\ fs[k].lines[j].entry.url = url }

(* the first position of S in File-then-Line order *)
FirstPosition(S) ==
  CHOOSE p \in S : \A q \in S : p[1] < q[1] \/ (p[1] = q[1] /\ p[2] <= q[2])

(* C16: after repo_modify(url, flag) has returned true, the first Entry    *)
(* with the url in File-then-Line order has enabled = flag, its File is    *)
(* dirty, it formats with the kind first when enabled and with `# ` before *)
(* the same text when disabled, and nothing else of the collection differs *)
C16_RepoModifyFound ==
  (ReturnedFrom("repo_modify") /\ last.ok) =>
    /\ UrlPositions(last.files0, last.arg.repo) # {}
    /\ LET p == FirstPosition(UrlPositions(last.files0, last.arg.repo))
           e0 == last.files0[p[1]].lines[p[2]].entry
           e == files[p[1]].lines[p[2]].entry
           text == (IF e.source THEN sDebSrc ELSE sDeb) \o sp
                     \o (IF IsSome(e.options)
                           THEN <<"[">> \o Unwrap(e.options) \o <<"]">> \o sp ELSE <<>>)
                     \o e.url \o sp \o e.suite \o sp \o join(e.components, sp)
       IN /\ p = FirstPosition(UrlPositions(files, last.arg.repo))
          /\ e.enabled = last.arg.enabled
          /\ (p[1] - 1) \in Range(modified)
          /\ SourceEntry_fmt(e) = (IF e.enabled THEN text ELSE <<"#", " ">> \o text)
          /\ e = [e0 EXCEPT !.enabled = last.arg.enabled]
          /\ \A k \in 1..Len(files) :
               /\ files[k].path = last.files0[k].path
               /\ Len(files[k].lines) = Len(last.files0[k].lines)
               /\ \A j \in 1..Len(files[k].lines) :
                    <<k, j>> # p => files[k].lines[j] = last.files0[k].lines[j]
          /\ Len(files) = Len(last.files0)

C16_Witness ==
  /\ ReturnedFrom("repo_modify")
  /\ last.ok
  /\ ~last.arg.enabled
  /\ files # last.files0
  /\ last.modified0 = <<>>
  /\ Cardinality(UrlPositions(files, last.arg.repo)) >= 2

(* C17: when no Entry line of any File has the url, repo_modify returns    *)
(* false and leaves the lines of every File and the dirty set as they were *)
C17_RepoModifyNotFound ==
  (ReturnedFrom("repo_modify") /\ UrlPositions(last.files0, last.arg.repo) = {}) =>
    /\ ~last.ok
    /\ files = last.files0
    /\ modified = last.modified0

C17_Witness ==
  /\ ReturnedFrom("repo_modify")
  /\ UrlPositions(last.files0, last.arg.repo) = {}
  /\ ~last.ok
  /\ last.modified0 # <<>>
  /\ \E k \in 1..Len(files) : \E j \in 1..Len(files[k].lines) : IsEntry(files[k].lines[j])


(* the Entry lines of fs as <<file, line>> positions (1-based) *)
EntryPositions(fs) ==
  { <<k, j>> \in UNION { {k} \X (1..Len(fs[k].lines)) : k \in 1..Len(fs) } :
      IsEntry(fs[k].lines[j]) }

(* number of positions of S before p in File-then-Line order *)
Rank(S, p) ==
  Cardinality({ q \in S : q[1] < p[1] \/ (q[1] = p[1] /\ q[2] < p[2]) })

BadLines(ls) == { n \in 1..Len(ls) : ~SourceLine_from_str(ls[n]).ok }

(* the drawn files that are missing or hold a rejected line *)
FailingLoads(loads) ==
  { k \in 1..Len(loads) : ~IsSome(loads[k]) \/ BadLines(Unwrap(loads[k])) # {} }

(* C19: loading fails when any physical line fails classification, with    *)
(* the path of the file and the 0-based index of that line, and the scan   *)
(* gives no collection when a file fails to open or to load                *)
C19_LoadFailsAsAWhole ==
  IsSome(output) =>
    LET r == Unwrap(output)
        failing == FailingLoads(input)
    IN IF failing = {}
         THEN r.ok /\ [k \in 1..Len(r.val.files) |-> r.val.files[k].path] = ScanPaths
         ELSE LET k == Least(failing)
              IN /\ ~r.ok
                 /\ files = <<>>
                 /\ r.err.path = ScanPaths[k]
                 /\ IF ~IsSome(input[k])
                      THEN r.err.type = "SourcesListOpen"
                      ELSE LET n == Least(BadLines(Unwrap(input[k])))
                           IN /\ r.err.type = "SourcesList"
                              /\ r.err.why.type = "BadLine"
                              /\ r.err.why.line = n - 1
                              /\ r.err.why.why = SourceLine_from_str(Unwrap(input[k])[n]).err

C19_Witness ==
  /\ IsSome(output)
  /\ ~Unwrap(output).ok
  /\ Unwrap(output).err.type = "SourcesList"
  /\ Unwrap(output).err.path = pMain
  /\ Unwrap(output).err.why.line = 2
  /\ Unwrap(input[1])[1] = Unwrap(input[1])[2]


(* C20: dist_upgrade(from, to) with from = to leaves every Entry of every  *)
(* File as it was, in every field, while it runs and when it has returned; *)
(* the rename of a line by any prefix of its suite, the empty one          *)
(* included, to that same prefix is the line itself                        *)
C20_SameSuiteNoChange ==
  /\ (ReturnedFrom("dist_upgrade") /\ last.arg.from_suite = last.arg.to_suite)
       => files = last.files0
  /\ (du.pc # "idle" /\ du.from_suite = du.to_suite)
       => files = du.files0
  /\ \A k \in 1..Len(files) : \A j \in 1..Len(files[k].lines) :
       IsEntry(files[k].lines[j]) =>
         \A n \in 0..Len(files[k].lines[j].entry.suite) :
           LET from_suite == Slice(files[k].lines[j].entry.suite, 1, n)
           IN apply_line(files[k].lines[j], from_suite, from_suite) = files[k].lines[j]

C20_Witness ==
  /\ ReturnedFrom("dist_upgrade")
  /\ last.ok
  /\ last.arg.from_suite = last.arg.to_suite
  /\ \E k \in 1..Len(files) : \E j \in 1..Len(files[k].lines) :
       /\ IsEntry(files[k].lines[j])
       /\ starts_with(files[k].lines[j].entry.url, sHttp)
       /\ starts_with(files[k].lines[j].entry.suite, last.arg.from_suite)
       /\ files[k].lines[j].entry.suite # last.arg.from_suite


(* the lines dist_upgrade(from_suite, to_suite) is to rename *)
IsUpgradable(line, from_suite) ==
  /\ IsEntry(line)
  /\ starts_with(line.entry.url, sHttp)
  /\ starts_with(line.entry.suite, from_suite)

(* C21: a successful dist_upgrade(from, to) gives the suite of an Entry    *)
(* whose url starts with `http` and whose suite starts with `from` the old *)
(* suite with every occurrence of `from` replaced by `to`, and leaves the  *)
(* other fields, the other lines, the order of the lines and the dirty set *)
(* as they were                                                            *)
C21_UpgradeFrame ==
  (ReturnedFrom("dist_upgrade") /\ last.ok) =>
    /\ modified = last.modified0
    /\ Len(files) = Len(last.files0)
    /\ \A k \in 1..Len(files) :
         /\ files[k].path = last.files0[k].path
         /\ Len(files[k].lines) = Len(last.files0[k].lines)
         /\ \A j \in 1..Len(files[k].lines) :
              LET old == last.files0[k].lines[j]
              IN files[k].lines[j] =
                   IF IsUpgradable(old, last.arg.from_suite)
                     THEN Entry([old.entry EXCEPT
                                   !.suite = replace(@, last.arg.from_suite, last.arg.to_suite)])
                     ELSE old

C21_Witness ==
  /\ ReturnedFrom("dist_upgrade")
  /\ last.ok
  /\ \E k \in 1..Len(files) : \E j \in 1..Len(files[k].lines) :
       /\ IsUpgradable(last.files0[k].lines[j], last.arg.from_suite)
       /\ last.files0[k].lines[j].entry.suite = suDD
       /\ files[k].lines[j].entry.suite = <<"c", "-", "c">>
  /\ \E k \in 1..Len(files) : \E j \in 1..Len(files[k].lines) :
       files[k].lines[j].kind = "Comment"


(* the formatted lines of a File, one per output line *)
FormattedLines(list) ==
  Text([j \in 1..Len(list.lines) |-> SourceLine_fmt(list.lines[j])])

(* C22: after dist_upgrade has returned success, the path of every File    *)
(* holds the File's lines as they are in memory, formatted one per output  *)
(* line in order, and the `.save` sibling of every File is on disk         *)
C22_UpgradeWritesMemory ==
  (ReturnedFrom("dist_upgrade") /\ last.ok) =>
    \A k \in 1..Len(files) :
      /\ disk[files[k].path] = Some(FormattedLines(files[k]))
      /\ IsSome(backup_path(files[k].path))
      /\ IsSome(disk[Unwrap(backup_path(files[k].path))])

C22_Witness ==
  /\ ReturnedFrom("dist_upgrade")
  /\ last.ok
  /\ files # last.files0
  /\ Len(files) = 2
  /\ \E k \in 1..Len(files) : \E j \in 1..Len(files[k].lines) :
       IsEntry(files[k].lines[j]) /\ ~files[k].lines[j].entry.enabled
  /\ \E k \in 1..Len(files) : disk[files[k].path] # last.disk0[files[k].path]


(* C23, as stated: loading yields one Line per physical line of the file,  *)
(* in file order, the i-th being the classification of the i-th physical   *)
(* line, lines that repeat an earlier line included                        *)
C23_OneLinePerPhysicalLine ==
  (IsSome(output) /\ Unwrap(output).ok) =>
    \A k \in 1..Len(input) :
      LET ls == Unwrap(input[k])
      IN Unwrap(output).val.files[k].lines =
           [i \in 1..Len(ls) |-> SourceLine_from_str(ls[i]).val]


(* C24, as stated: writing a File puts at its path each Line's formatted   *)
(* text followed by one newline and nothing else, so the file has as many  *)
(* physical lines as the File has Lines                                    *)
C24_PersistIsSerialize ==
  (ReturnedFrom("write_sync") /\ last.ok) =>
    \A id \in Range(last.modified0) :
      LET list == files[id + 1]
      IN /\ disk[list.path] = Some(FormattedLines(list))
         /\ Len(lines(Unwrap(disk[list.path]))) = Len(list.lines)


(* the Files of fs (1-based) with an Entry whose suite is from_suite *)
FilesWithSuite(fs, from_suite) ==
  { k \in 1..Len(fs) : \E j \in 1..Len(fs[k].lines) :
      IsEntry(fs[k].lines[j]) /\ fs[k].lines[j].entry.suite = from_suite }

(* dist_replace(from, to): the suite becomes `to` in exactly the Entries    *)
(* whose suite is `from`, nothing else of the Files changes, and the disk  *)
(* is not touched                                                          *)
ReplacedInMemory ==
  /\ disk = last.disk0
  /\ Len(files) = Len(last.files0)
  /\ \A k \in 1..Len(files) :
       /\ files[k].path = last.files0[k].path
       /\ Len(files[k].lines) = Len(last.files0[k].lines)
       /\ \A j \in 1..Len(files[k].lines) :
            LET old == last.files0[k].lines[j]
            IN files[k].lines[j] =
                 IF IsEntry(old) /\ old.entry.suite = last.arg.from_suite
                   THEN Entry([old.entry EXCEPT !.suite = last.arg.to_suite])
                   ELSE old

(* C25, as stated: dist_replace changes memory only, renames exactly the   *)
(* Entries whose suite is `from`, and adds a File to the dirty set if and  *)
(* only if one of its Entries changed                                      *)
C25_ReplaceDirtyIffChanged ==
  ReturnedFrom("dist_replace") =>
    /\ ReplacedInMemory
    /\ Range(modified) =
         Range(last.modified0)
           \cup { k - 1 : k \in { n \in 1..Len(files) : files[n] # last.files0[n] } }

(* C25, amended: dist_replace changes memory only, renames exactly the     *)
(* Entries whose suite is `from`, and adds a File to the dirty set if and  *)
(* only if one of its Entries has the suite `from`, also when `to` is      *)
(* `from` and no Entry changes                                             *)
C25_ReplaceDirtyIffMatched ==
  ReturnedFrom("dist_replace") =>
    /\ ReplacedInMemory
    /\ Range(modified) =
         Range(last.modified0)
           \cup { k - 1 : k \in FilesWithSuite(last.files0, last.arg.from_suite) }

C25_Witness ==
  /\ ReturnedFrom("dist_replace")
  /\ last.arg.from_suite # last.arg.to_suite
  /\ Cardinality(Range(modified)) = Cardinality(Range(last.modified0)) + 1
  /\ \E k \in 1..Len(files) : files[k] = last.files0[k]
  /\ \E k \in 1..Len(files) : \E j \in 1..Len(files[k].lines) :
       /\ IsEntry(files[k].lines[j])
       /\ files[k].lines[j].entry.suite = suDU


(* the File at position k (1-based) is not what a load of its path gives *)
DiffersFromDisk(k) ==
  \E r \in {SourcesList_new(disk, files[k].path)} :
    ~r.ok \/ r.val.lines # files[k].lines

(* C26, as stated: between operations, every File whose lines in memory    *)
(* differ from what its path holds on disk is in the dirty set             *)
C26_DirtyCoversUnwritten ==
  du.pc = "idle" =>
    \A k \in 1..Len(files) : DiffersFromDisk(k) => (k - 1) \in Range(modified)


(* C27, as stated: when dist_upgrade has returned an error, the lines of   *)
(* every File in memory are what they were before the call                 *)
C27_ErrorKeepsMemory ==
  (ReturnedFrom("dist_upgrade") /\ ~last.ok) => files = last.files0


(* C28, as stated: a dist_upgrade(from, to) that returns success right     *)
(* after a successful dist_upgrade(from, to) changes no Entry and leaves   *)
(* at every File's path what the first run wrote                           *)
C28_UpgradeIdempotent ==
  [][ ( /\ last.op = "dist_upgrade" /\ last.ok
        /\ last'.op = "dist_upgrade" /\ last'.ok
        /\ nops' = nops + 1
        /\ last'.arg.from_suite = last.arg.from_suite
        /\ last'.arg.to_suite = last.arg.to_suite )
      => /\ files' = last'.files0
         /\ \A k \in 1..Len(files') :
              disk'[files'[k].path] = last'.disk0[files'[k].path] ]_vars


(* `deb [o] U d m`, the option list one token followed by whitespace *)
SpacedForm(o, U) ==
  sDeb \o sp \o <<"[">> \o o \o <<"]">> \o sp \o U \o sp \o suD \o sp \o cM

(* `deb [o]U d m`, the url attached to the closing bracket *)
AttachedForm(o, U) ==
  sDeb \o sp \o <<"[">> \o o \o <<"]">> \o U \o sp \o suD \o sp \o cM

(* C29, as stated: `deb [o] U S C` parses to options o, without a bracket, *)
(* and url U, the same Entry as `deb [o]U S C`, in the parser of           *)
(* source_entry.rs and in SourceEntry::parse_line of lib.rs                *)
C29_SpacedOptions ==
  \A o \in LineOptions, U \in LineUrls :
    (IsSome(output) /\ input = SpacedForm(o, U)) =>
      /\ Unwrap(output).current = Ok(SourceEntry(TRUE, FALSE, Some(o), U, suD, <<cM>>))
      /\ Unwrap(output).current = SourceEntry_from_str(AttachedForm(o, U))
      /\ Unwrap(output).legacy = Ok(LegacyEntry(FALSE, Some(o), U, suD, <<cM>>))
      /\ Unwrap(output).legacy = parse_line(AttachedForm(o, U))


(* the events the files call for, from file n on: NewList(path) and then   *)
(* every line of the file, for each file that has a line                   *)
RECURSIVE ExpectedEvents(_, _, _)
ExpectedEvents(paths, loads, n) ==
  IF n > Len(paths) THEN <<>>
  ELSE (IF loads[n] = <<>> THEN <<>>
        ELSE <<NewList(paths[n])>>
               \o [i \in 1..Len(loads[n]) |->
                     EntryEvent(SourceLine_parse_line(loads[n][i]).val)])
         \o ExpectedEvents(paths, loads, n + 1)

IsPrefix(s, t) == Len(s) <= Len(t) /\ s = Slice(t, 1, Len(s))

(* C30: iterating with SourcesIter terminates, and what it has yielded is  *)
(* always a prefix of, and at the end is, the stored lines in order as     *)
(* Entry events with one NewList(path) right before the first line of each *)
(* file that has a line and none for a file without lines                  *)
C30_IterYieldsAll ==
  /\ [](\E expected \in {ExpectedEvents(input.list.paths, input.loads, 1)} :
          /\ IsPrefix(output.events, expected)
          /\ output.done => output.events = expected)
  /\ <>(output.done)

C30_Witness ==
  /\ output.done
  /\ input.loads[1] # <<>>
  /\ input.loads[2] = <<>>
  /\ Len(input.loads[3]) = 2
  /\ input.loads[3][1] = input.loads[3][2]
  /\ Cardinality({ n \in 1..Len(output.events) : output.events[n].event = "NewList" }) = 2
  /\ output.events[Len(output.events)] = EntryEvent(Comment(<<"#", " ", "c">>))


====
